---- MODULE Spec2Model ----
(***************************************************************************)
(* A model of the tutorial's stateful services:                            *)
(*   - the in-memory users CRUD service (context.rs, UsersState and its    *)
(*     axum handlers),                                                     *)
(*   - the database-backed todos CRUD service (persistence.rs,             *)
(*     TodoRepoPostgres and its handlers),                                 *)
(*   - the mutable exchange-rate exercise (context.rs, exercise 4).        *)
(*                                                                         *)
(* Spec      one server process (users or todos), requests served one at   *)
(*           a time; every action is one whole request handler.            *)
(* SpecConc  the users server with several request tasks in flight,        *)
(*           sharing the one Arc<Mutex<UsersState>>.                       *)
(* SpecRate  the exchange-rate router with several request tasks sharing   *)
(*           the one Arc<Mutex<f64>>.                                      *)
(* SpecExercises  the routers of exercises 3, 5 and 6, one request at a    *)
(*           time.                                                         *)
(* SpecPair  the in-memory store and the todos repository given the same   *)
(*           requests, one at a time.                                      *)
(* SpecCancel  the users server with request tasks that can be dropped at  *)
(*           their await point; SpecCancelFair adds the scheduling of the  *)
(*           runtime (every runnable task is polled).                      *)
(***************************************************************************)
EXTENDS Integers, Sequences, FiniteSets, TLC

(***************************************************************************)
(* Bounds of the model.                                                    *)
(***************************************************************************)
\* number of POST /users requests served in one run of Spec
MaxCreates == 3
\* number of POST /todos requests served in one run of Spec
MaxTodos == 1

\* identifiers a request path may carry: every identifier a create can hand
\* out within the bound, and one more that no create ever returns
Ids == 0 .. MaxCreates
TodoIds == 0 .. (MaxTodos + 1)

Names == {"Alice", "Bob"}
Emails == {"a@x.com", "b@x.com"}

VARIABLES
  app,        \* which server this process runs: "users", "todos" or "rates"
              \* ("pair": the users store and the todos repository together)
  state,      \* the UsersState behind the Arc<Mutex<..>>: [users, next_id]
  db,         \* the todos table behind the connection pool: [todos, seq]
  issued,     \* history: the ids returned by create, in order
  deleted,    \* history: the ids whose delete returned a record
  last,       \* history: the last request served and its response
  lock,       \* the Mutex around the UsersState: the task holding the guard, or 0
  tasks,      \* the request tasks of the users server, by task number
  accepted,   \* history: the number of requests accepted so far
  lin,        \* history: the store and the count of operations applied one
              \* at a time in the order the guard was granted
  rate_arc,   \* the f64 behind the Arc<Mutex<f64>> of the exchange-rate router
  rate_lock,  \* the Mutex around it: the task holding the guard, or 0
  rtasks,     \* the request tasks of the exchange-rate router
  rate_hist,  \* history: the requests accepted and the rate last stored
  exercise_log \* history: the requests served by the routers of exercises 3,
              \* 5 and 6 and their outcomes, in order

(***************************************************************************)
(* Option<T> and HashMap<u64, T>.                                          *)
(***************************************************************************)
None == << >>
Some(x) == << x >>
is_none(o) == o = << >>
is_some(o) == o # << >>
unwrap(o) == o[1]

EmptyMap == [k \in {} |-> 0]
HashMap_get(m, k) == IF k \in DOMAIN m THEN Some(m[k]) ELSE None
HashMap_insert(m, k, v) == [x \in (DOMAIN m) \cup {k} |-> IF x = k THEN v ELSE m[x]]
HashMap_remove(m, k) ==
  IF k \in DOMAIN m
    THEN [map |-> [x \in (DOMAIN m) \ {k} |-> m[x]], ret |-> Some(m[k])]
    ELSE [map |-> m, ret |-> None]

\* every order in which the values of a map can be iterated (the iteration
\* order of a HashMap, like the row order of SELECT without ORDER BY, is
\* not specified)
HashMap_values(m) ==
  { [i \in 1 .. Cardinality(DOMAIN m) |-> m[f[i]]] :
      f \in { g \in [1 .. Cardinality(DOMAIN m) -> DOMAIN m] :
                \A i, j \in 1 .. Cardinality(DOMAIN m) : i # j => g[i] # g[j] } }

(***************************************************************************)
(* User, ProtoUser, UserUpdate.                                            *)
(***************************************************************************)
User(id, name, email) == [id |-> id, name |-> name, email |-> email]
ProtoUser == [name : Names, email : Emails]
OptNames == {None} \cup { Some(n) : n \in Names }
OptEmails == {None} \cup { Some(e) : e \in Emails }
UserUpdate == [name : OptNames, email : OptEmails]

(***************************************************************************)
(* impl UsersState.  Each method is an operator from the state before to   *)
(* the state after and the value returned.                                 *)
(***************************************************************************)
\* variant: the generator starts at one
UsersState_new_from_one == [users |-> EmptyMap, next_id |-> 1]

UsersState_new == [users |-> EmptyMap, next_id |-> 0]

UsersState_get_user(st, id) == HashMap_get(st.users, id)

\* the set of vectors get_users can return, one per iteration order
UsersState_get_users(st) == HashMap_values(st.users)

\* variant: the identifier is the number of live records
UsersState_create_user_len(st, proto_user) ==
  LET id == Cardinality(DOMAIN st.users)
      new_user == User(id, proto_user.name, proto_user.email)
  IN  [state |-> [users   |-> HashMap_insert(st.users, id, new_user),
                  next_id |-> st.next_id + 1],
       ret   |-> new_user]

\* variant: the generator advances before the insert
UsersState_create_user_incr_first(st, proto_user) ==
  LET new_user == User(st.next_id, proto_user.name, proto_user.email)
  IN  [state |-> [users   |-> HashMap_insert(st.users, st.next_id + 1, new_user),
                  next_id |-> st.next_id + 1],
       ret   |-> new_user]

UsersState_create_user(st, proto_user) ==
  LET new_user == User(st.next_id, proto_user.name, proto_user.email)
  IN  [state |-> [users   |-> HashMap_insert(st.users, st.next_id, new_user),
                  next_id |-> st.next_id + 1],
       ret   |-> new_user]

\* variant: an omitted field becomes the empty string
UsersState_update_user_default(st, id, update) ==
  LET current_user == HashMap_get(st.users, id)
  IN  IF is_none(current_user)
        THEN [state |-> st, ret |-> None]
        ELSE LET cur == unwrap(current_user)
                 new_user == User(cur.id,
                                  IF is_some(update.name) THEN unwrap(update.name) ELSE "",
                                  IF is_some(update.email) THEN unwrap(update.email) ELSE "")
             IN  [state |-> [users   |-> HashMap_insert(st.users, id, new_user),
                             next_id |-> st.next_id],
                  ret   |-> Some(new_user)]

\* variant: an update of an absent identifier inserts a record
UsersState_update_user_upsert(st, id, update) ==
  LET current_user == HashMap_get(st.users, id)
      cur == IF is_some(current_user) THEN unwrap(current_user) ELSE User(id, "", "")
      new_user == User(cur.id,
                       IF is_some(update.name) THEN unwrap(update.name) ELSE cur.name,
                       IF is_some(update.email) THEN unwrap(update.email) ELSE cur.email)
  IN  [state |-> [users   |-> HashMap_insert(st.users, id, new_user),
                  next_id |-> st.next_id],
       ret   |-> Some(new_user)]

\* variant: the updated record is stored as a new record under the next
\* identifier
UsersState_update_user_recreate(st, id, update) ==
  LET current_user == HashMap_get(st.users, id)
  IN  IF is_none(current_user)
        THEN [state |-> st, ret |-> None]
        ELSE LET cur == unwrap(current_user)
                 new_user == User(st.next_id,
                                  IF is_some(update.name) THEN unwrap(update.name) ELSE cur.name,
                                  IF is_some(update.email) THEN unwrap(update.email) ELSE cur.email)
             IN  [state |-> [users   |-> HashMap_insert(HashMap_remove(st.users, id).map,
                                                        st.next_id, new_user),
                             next_id |-> st.next_id + 1],
                  ret   |-> Some(new_user)]

UsersState_update_user(st, id, update) ==
  LET current_user == HashMap_get(st.users, id)
  IN  IF is_none(current_user)
        THEN [state |-> st, ret |-> None]
        ELSE LET cur == unwrap(current_user)
                 new_user == User(cur.id,
                                  IF is_some(update.name) THEN unwrap(update.name) ELSE cur.name,
                                  IF is_some(update.email) THEN unwrap(update.email) ELSE cur.email)
             IN  [state |-> [users   |-> HashMap_insert(st.users, id, new_user),
                             next_id |-> st.next_id],
                  ret   |-> Some(new_user)]

\* variant: the record is returned but stays in the map
UsersState_delete_user_keep(st, id) ==
  [state |-> st, ret |-> HashMap_get(st.users, id)]

\* variant: a delete of a live record empties the map
UsersState_delete_user_clear(st, id) ==
  LET r == HashMap_get(st.users, id)
  IN  [state |-> [users   |-> IF is_some(r) THEN EmptyMap ELSE st.users,
                  next_id |-> st.next_id],
       ret   |-> r]

UsersState_delete_user(st, id) ==
  LET r == HashMap_remove(st.users, id)
  IN  [state |-> [users |-> r.map, next_id |-> st.next_id], ret |-> r.ret]

(***************************************************************************)
(* Responses.  A body is [kind, items, text]: a JSON object (one record),  *)
(* a JSON array (a vector of records) or raw text written by the handler.  *)
(***************************************************************************)
StatusCode_OK == 200
StatusCode_NOT_FOUND == 404

\* Json(v).into_response(): 200, application/json, the value serialised
Json_into_response(kind, items) ==
  [status       |-> StatusCode_OK,
   content_type |-> "application/json",
   body         |-> [kind |-> kind, items |-> items, text |-> ""]]

\* serde_json::json!(&s) displayed: the string s between double quotes
\* (the messages of the program hold no character that needs escaping)
json_string(s) == "\"" \o s \o "\""

\* variant: the key between double quotes, as in strict JSON
format_message_quoted(v) == "{\"message\":" \o v \o "}"

\* format!("{{message:{}}}", v): literal braces, the key without quotes
format_message(v) == "{message:" \o v \o "}"

MissingUserError_into_response(message) ==
  [status       |-> StatusCode_NOT_FOUND,
   content_type |-> "application/json",
   body         |-> [kind |-> "raw", items |-> << >>,
                     text |-> format_message(json_string(message))]]

MissingTodoError_into_response(message) ==
  [status       |-> StatusCode_NOT_FOUND,
   content_type |-> "application/json",
   body         |-> [kind |-> "raw", items |-> << >>,
                     text |-> format_message(json_string(message))]]

(***************************************************************************)
(* The users handlers: lock the state, run one method, encode the result.  *)
(* Each yields [state, ret, resp].                                         *)
(***************************************************************************)
\* one outcome per iteration order of the map
get_users(st) ==
  { [state |-> st, ret |-> v, resp |-> Json_into_response("array", v)] :
      v \in UsersState_get_users(st) }

get_user(st, id) ==
  LET r == UsersState_get_user(st, id)
  IN  [state |-> st, ret |-> r,
       resp  |-> IF is_some(r) THEN Json_into_response("object", r)
                               ELSE MissingUserError_into_response("")]

create_user(st, proto_user) ==
  LET r == UsersState_create_user(st, proto_user)
  IN  [state |-> r.state, ret |-> Some(r.ret),
       resp  |-> Json_into_response("object", Some(r.ret))]

update_user(st, id, updates) ==
  LET r == UsersState_update_user(st, id, updates)
  IN  [state |-> r.state, ret |-> r.ret,
       resp  |-> IF is_some(r.ret) THEN Json_into_response("object", r.ret)
                                   ELSE MissingUserError_into_response("")]

delete_user(st, id) ==
  LET r == UsersState_delete_user(st, id)
  IN  [state |-> r.state, ret |-> r.ret,
       resp  |-> IF is_some(r.ret) THEN Json_into_response("object", r.ret)
                                   ELSE MissingUserError_into_response("")]

(***************************************************************************)
(* The todos table and impl TodoRepo for TodoRepoPostgres: each method is  *)
(* one SQL statement on the table.                                         *)
(***************************************************************************)
Titles == {"t1", "t2"}
Descriptions == {"d1", "d2"}
OptTitles == {None} \cup { Some(t) : t \in Titles }
OptDescriptions == {None} \cup { Some(d) : d \in Descriptions }
OptDone == {None, Some(TRUE), Some(FALSE)}
CreateTodo == [title : Titles, description : Descriptions]
UpdateTodo == [title : OptTitles, description : OptDescriptions, done : OptDone]

\* the first value of the table's auto-assigned key
FirstTodoId == 1

\* the empty table; seq is the next value of the key's sequence
TodoDb_new == [todos |-> EmptyMap, seq |-> FirstTodoId]

\* a row of the table; created_at is the position of the insert in the
\* order of inserts
TodoRecord(id, title, description, done, created_at) ==
  [id |-> id, title |-> title, description |-> description, done |-> done,
   created_at |-> created_at]

Todo_from_record(record) ==
  [id |-> record.id, title |-> record.title,
   description |-> record.description, done |-> record.done]

\* variant: the arguments in the other order, COALESCE(column, $n)
COALESCE_swapped(param, column) == column

\* COALESCE($n, column)
COALESCE(param, column) == IF is_some(param) THEN unwrap(param) ELSE column

\* SELECT * FROM todos
TodoRepoPostgres_get_all(d) ==
  { [i \in DOMAIN rows |-> Todo_from_record(rows[i])] : rows \in HashMap_values(d.todos) }

\* INSERT INTO todos (title, description, done) VALUES ($1, $2, false) RETURNING *
TodoRepoPostgres_create(d, title, description) ==
  LET row == TodoRecord(d.seq, title, description, FALSE, d.seq)
  IN  [db  |-> [todos |-> HashMap_insert(d.todos, d.seq, row), seq |-> d.seq + 1],
       ret |-> Todo_from_record(row)]

\* SELECT * FROM todos WHERE id = $1
TodoRepoPostgres_get(d, id) ==
  LET row == HashMap_get(d.todos, id)
  IN  IF is_some(row) THEN Some(Todo_from_record(unwrap(row))) ELSE None

\* UPDATE todos SET title = COALESCE($1, title), ... WHERE id = $4 RETURNING *
TodoRepoPostgres_update(d, id, title, description, done) ==
  LET row == HashMap_get(d.todos, id)
  IN  IF is_none(row)
        THEN [db |-> d, ret |-> None]
        ELSE LET old == unwrap(row)
                 new == TodoRecord(old.id,
                                   COALESCE(title, old.title),
                                   COALESCE(description, old.description),
                                   COALESCE(done, old.done),
                                   old.created_at)
             IN  [db  |-> [todos |-> HashMap_insert(d.todos, id, new), seq |-> d.seq],
                  ret |-> Some(Todo_from_record(new))]

\* DELETE FROM todos WHERE id = $1 RETURNING *
TodoRepoPostgres_delete(d, id) ==
  LET r == HashMap_remove(d.todos, id)
  IN  [db  |-> [todos |-> r.map, seq |-> d.seq],
       ret |-> IF is_some(r.ret) THEN Some(Todo_from_record(unwrap(r.ret))) ELSE None]

(***************************************************************************)
(* The todos handlers.  Each yields [db, ret, resp].                       *)
(***************************************************************************)
get_todos(d) ==
  { [db |-> d, ret |-> v, resp |-> Json_into_response("array", v)] :
      v \in TodoRepoPostgres_get_all(d) }

get_todo(d, id) ==
  LET r == TodoRepoPostgres_get(d, id)
  IN  [db |-> d, ret |-> r,
       resp |-> IF is_some(r) THEN Json_into_response("object", r)
                              ELSE MissingTodoError_into_response("")]

create_todo(d, spec) ==
  LET r == TodoRepoPostgres_create(d, spec.title, spec.description)
  IN  [db |-> r.db, ret |-> Some(r.ret),
       resp |-> Json_into_response("object", Some(r.ret))]

update_todo(d, id, update) ==
  LET r == TodoRepoPostgres_update(d, id, update.title, update.description, update.done)
  IN  [db |-> r.db, ret |-> r.ret,
       resp |-> IF is_some(r.ret) THEN Json_into_response("object", r.ret)
                                  ELSE MissingTodoError_into_response("")]

delete_todo(d, id) ==
  LET r == TodoRepoPostgres_delete(d, id)
  IN  [db |-> r.db, ret |-> r.ret,
       resp |-> IF is_some(r.ret) THEN Json_into_response("object", r.ret)
                                  ELSE MissingTodoError_into_response("")]

(***************************************************************************)
(* Spec: one server, one request at a time.                                *)
(***************************************************************************)
seqvars == << app, state, db, issued, deleted, last >>
concvars == << lock, tasks, accepted, lin >>
ratevars == << rate_arc, rate_lock, rtasks, rate_hist >>
exvars == << exercise_log >>
vars == << seqvars, concvars, ratevars, exvars >>

\* the record of a served request: the operation, its path id and payload,
\* the store before it, the value the store operation returned, the response
Served(op, id, arg, pre, ret, resp) ==
  [op |-> op, id |-> id, arg |-> arg, pre |-> pre, ret |-> ret, resp |-> resp]

NoRequest == Served("none", 0, None, None, None, None)

Init ==
  /\ app \in {"users", "todos"}
  /\ state = UsersState_new
  /\ db = TodoDb_new
  /\ issued = << >>
  /\ deleted = {}
  /\ last = NoRequest
  /\ lock = 0
  /\ tasks = << >>
  /\ accepted = 0
  /\ lin = << >>
  /\ rate_arc = << >>
  /\ rate_lock = 0
  /\ rtasks = << >>
  /\ rate_hist = << >>
  /\ exercise_log = << >>

\* GET /users
GetUsers ==
  /\ app = "users"
  /\ \E r \in get_users(state) :
       /\ state' = r.state
       /\ last' = Served("list", 0, None, state, r.ret, r.resp)
  /\ UNCHANGED << app, db, issued, deleted >>
  /\ UNCHANGED << concvars, ratevars, exvars >>

\* GET /users/:id
GetUser ==
  /\ app = "users"
  /\ \E id \in Ids :
       LET r == get_user(state, id)
       IN  /\ state' = r.state
           /\ last' = Served("get", id, None, state, r.ret, r.resp)
  /\ UNCHANGED << app, db, issued, deleted >>
  /\ UNCHANGED << concvars, ratevars, exvars >>

\* POST /users
CreateUser ==
  /\ app = "users"
  /\ Len(issued) < MaxCreates
  /\ \E p \in ProtoUser :
       LET r == create_user(state, p)
       IN  /\ state' = r.state
           /\ issued' = Append(issued, unwrap(r.ret).id)
           /\ last' = Served("create", 0, Some(p), state, r.ret, r.resp)
  /\ UNCHANGED << app, db, deleted >>
  /\ UNCHANGED << concvars, ratevars, exvars >>

\* PUT /users/:id
UpdateUser ==
  /\ app = "users"
  /\ \E id \in Ids, u \in UserUpdate :
       LET r == update_user(state, id, u)
       IN  /\ state' = r.state
           /\ last' = Served("update", id, Some(u), state, r.ret, r.resp)
  /\ UNCHANGED << app, db, issued, deleted >>
  /\ UNCHANGED << concvars, ratevars, exvars >>

\* DELETE /users/:id
DeleteUser ==
  /\ app = "users"
  /\ \E id \in Ids :
       LET r == delete_user(state, id)
       IN  /\ state' = r.state
           /\ deleted' = IF is_some(r.ret) THEN deleted \cup {id} ELSE deleted
           /\ last' = Served("delete", id, None, state, r.ret, r.resp)
  /\ UNCHANGED << app, db, issued >>
  /\ UNCHANGED << concvars, ratevars, exvars >>

\* GET /todos
GetTodos ==
  /\ app = "todos"
  /\ \E r \in get_todos(db) :
       last' = Served("list", 0, None, db, r.ret, r.resp)
  /\ UNCHANGED << app, state, db, issued, deleted >>
  /\ UNCHANGED << concvars, ratevars, exvars >>

\* GET /todos/:id
GetTodo ==
  /\ app = "todos"
  /\ \E id \in TodoIds :
       LET r == get_todo(db, id)
       IN  last' = Served("get", id, None, db, r.ret, r.resp)
  /\ UNCHANGED << app, state, db, issued, deleted >>
  /\ UNCHANGED << concvars, ratevars, exvars >>

\* POST /todos
CreateTodoReq ==
  /\ app = "todos"
  /\ Len(issued) < MaxTodos
  /\ \E c \in CreateTodo :
       LET r == create_todo(db, c)
       IN  /\ db' = r.db
           /\ issued' = Append(issued, unwrap(r.ret).id)
           /\ last' = Served("create", 0, Some(c), db, r.ret, r.resp)
  /\ UNCHANGED << app, state, deleted >>
  /\ UNCHANGED << concvars, ratevars, exvars >>

\* PUT /todos/:id
UpdateTodoReq ==
  /\ app = "todos"
  /\ \E id \in TodoIds, u \in UpdateTodo :
       LET r == update_todo(db, id, u)
       IN  /\ db' = r.db
           /\ last' = Served("update", id, Some(u), db, r.ret, r.resp)
  /\ UNCHANGED << app, state, issued, deleted >>
  /\ UNCHANGED << concvars, ratevars, exvars >>

\* DELETE /todos/:id
DeleteTodo ==
  /\ app = "todos"
  /\ \E id \in TodoIds :
       LET r == delete_todo(db, id)
       IN  /\ db' = r.db
           /\ deleted' = IF is_some(r.ret) THEN deleted \cup {id} ELSE deleted
           /\ last' = Served("delete", id, None, db, r.ret, r.resp)
  /\ UNCHANGED << app, state, issued >>
  /\ UNCHANGED << concvars, ratevars, exvars >>

Next ==
  \/ GetUsers
  \/ GetUser
  \/ CreateUser
  \/ UpdateUser
  \/ DeleteUser
  \/ GetTodos
  \/ GetTodo
  \/ CreateTodoReq
  \/ UpdateTodoReq
  \/ DeleteTodo

Spec == Init /\ [][Next]_vars

(***************************************************************************)
(* SpecConc: the users server with several requests in flight.  A request  *)
(* task evaluates state.lock().await, runs one UsersState method on the    *)
(* guarded state line by line, and drops the guard when the handler        *)
(* returns.  Tasks run on a multi-threaded runtime, so any task may take   *)
(* the next step.                                                          *)
(***************************************************************************)
\* number of request tasks that can be in flight together
NumTasks == 2
\* number of requests accepted in one run of SpecConc
MaxRequests == 3

Tasks == 1 .. NumTasks

\* the requests of SpecConc: [op, id, arg]
Request(op, id, arg) == [op |-> op, id |-> id, arg |-> arg]
ConcIds == {0, 1}
ConcProtos == { [name |-> "Alice", email |-> "a@x.com"] }
ConcUpdates == { [name |-> Some("Bob"), email |-> None],
                 [name |-> None, email |-> Some("b@x.com")] }
ConcRequests ==
  {Request("list", 0, None)}
    \cup { Request("get", id, None) : id \in ConcIds }
    \cup { Request("create", 0, Some(p)) : p \in ConcProtos }
    \cup { Request("update", id, Some(u)) : id \in ConcIds, u \in ConcUpdates }
    \cup { Request("delete", id, None) : id \in ConcIds }

\* a task: where it is in its handler (pc), its request, the value held in
\* the method's local variable, the value the method returned, the response
\* sent, and as history: the returns the one-at-a-time run allows (exp), the
\* position of the request in that run (idx) and the positions of the
\* requests that were answered before this one arrived (before)
Task(pc, req, local, ret, resp, exp, idx, before) ==
  [pc |-> pc, req |-> req, local |-> local, ret |-> ret, resp |-> resp,
   exp |-> exp, idx |-> idx, before |-> before]

IdleTask == Task("idle", Request("none", 0, None), None, None, None, {}, 0, {})

\* variant: the guard is granted while another task holds it
lock_is_free_always(l) == TRUE

\* state.lock().await completes only when no other guard is alive
lock_is_free(l) == l = 0

\* the result of dropping the guard held by task t
MutexGuard_drop_forget(l, t) == l
MutexGuard_drop(l, t) == IF l = t THEN 0 ELSE l

\* the response a handler builds from the value its method returned
handler_response(op, ret) ==
  IF op = "list" THEN Json_into_response("array", ret)
  ELSE IF is_some(ret) THEN Json_into_response("object", ret)
  ELSE MissingUserError_into_response("")

\* one request applied to store st as a whole: the store after it and the
\* set of values it may return
SeqApply(st, req) ==
  CASE req.op = "list" ->
         [state |-> st, rets |-> { r.ret : r \in get_users(st) }]
    [] req.op = "get" ->
         [state |-> st, rets |-> { get_user(st, req.id).ret }]
    [] req.op = "create" ->
         LET r == create_user(st, unwrap(req.arg))
         IN  [state |-> r.state, rets |-> { r.ret }]
    [] req.op = "update" ->
         LET r == update_user(st, req.id, unwrap(req.arg))
         IN  [state |-> r.state, rets |-> { r.ret }]
    [] req.op = "delete" ->
         LET r == delete_user(st, req.id)
         IN  [state |-> r.state, rets |-> { r.ret }]

InitConc ==
  /\ app = "users"
  /\ state = UsersState_new
  /\ db = TodoDb_new
  /\ issued = << >>
  /\ deleted = {}
  /\ last = NoRequest
  /\ lock = 0
  /\ tasks = [t \in Tasks |-> IdleTask]
  /\ accepted = 0
  /\ lin = [state |-> UsersState_new, n |-> 0, done |-> {}]
  /\ rate_arc = << >>
  /\ rate_lock = 0
  /\ rtasks = << >>
  /\ rate_hist = << >>
  /\ exercise_log = << >>

ConcFrame == UNCHANGED << app, db, issued, deleted, last, ratevars, exvars >>

\* a request arrives and its handler starts; it next awaits the lock
Invoke(t) ==
  /\ tasks[t].pc = "idle"
  /\ accepted < MaxRequests
  /\ \E req \in ConcRequests :
       tasks' = [tasks EXCEPT ![t] =
                   Task("lock", req, None, None, None, {}, 0, lin.done)]
  /\ accepted' = accepted + 1
  /\ UNCHANGED << state, lock, lin >>
  /\ ConcFrame

\* state.lock().await returns the guard
Acquire(t) ==
  /\ tasks[t].pc = "lock"
  /\ lock_is_free(lock)
  /\ lock' = t
  /\ LET r == SeqApply(lin.state, tasks[t].req)
     IN  /\ lin' = [lin EXCEPT !.state = r.state, !.n = lin.n + 1]
         /\ tasks' = [tasks EXCEPT ![t].pc = tasks[t].req.op,
                                   ![t].exp = r.rets,
                                   ![t].idx = lin.n + 1]
  /\ UNCHANGED << state, accepted >>
  /\ ConcFrame

\* get_users: self.users.values().map(clone).collect()
RunGetUsers(t) ==
  /\ tasks[t].pc = "list"
  /\ \E v \in UsersState_get_users(state) :
       tasks' = [tasks EXCEPT ![t].pc = "respond", ![t].ret = v]
  /\ UNCHANGED << state, lock, accepted, lin >>
  /\ ConcFrame

\* get_user: self.users.get(&id).map(clone)
RunGetUser(t) ==
  /\ tasks[t].pc = "get"
  /\ tasks' = [tasks EXCEPT ![t].pc = "respond",
                            ![t].ret = UsersState_get_user(state, tasks[t].req.id)]
  /\ UNCHANGED << state, lock, accepted, lin >>
  /\ ConcFrame

\* create_user, first line: let new_user = User { id: self.next_id, .. }
CreateBuild(t) ==
  /\ tasks[t].pc = "create"
  /\ LET p == unwrap(tasks[t].req.arg)
     IN  tasks' = [tasks EXCEPT ![t].pc = "create_insert",
                                ![t].local = Some(User(state.next_id, p.name, p.email))]
  /\ UNCHANGED << state, lock, accepted, lin >>
  /\ ConcFrame

\* create_user, second line: self.users.insert(self.next_id, new_user.clone())
CreateInsert(t) ==
  /\ tasks[t].pc = "create_insert"
  /\ state' = [state EXCEPT !.users =
                 HashMap_insert(state.users, state.next_id, unwrap(tasks[t].local))]
  /\ tasks' = [tasks EXCEPT ![t].pc = "create_incr"]
  /\ UNCHANGED << lock, accepted, lin >>
  /\ ConcFrame

\* create_user, last lines: self.next_id += 1; new_user
CreateIncr(t) ==
  /\ tasks[t].pc = "create_incr"
  /\ state' = [state EXCEPT !.next_id = state.next_id + 1]
  /\ tasks' = [tasks EXCEPT ![t].pc = "respond", ![t].ret = tasks[t].local]
  /\ UNCHANGED << lock, accepted, lin >>
  /\ ConcFrame

\* update_user, up to the construction of new_user: the lookup, the early
\* return of None, the merge of the update into the current record
UpdateLookup(t) ==
  /\ tasks[t].pc = "update"
  /\ LET current_user == HashMap_get(state.users, tasks[t].req.id)
         update == unwrap(tasks[t].req.arg)
     IN  IF is_none(current_user)
           THEN tasks' = [tasks EXCEPT ![t].pc = "respond", ![t].ret = None]
           ELSE LET cur == unwrap(current_user)
                    new_user ==
                      User(cur.id,
                           IF is_some(update.name) THEN unwrap(update.name) ELSE cur.name,
                           IF is_some(update.email) THEN unwrap(update.email) ELSE cur.email)
                IN  tasks' = [tasks EXCEPT ![t].pc = "update_insert",
                                           ![t].local = Some(new_user)]
  /\ UNCHANGED << state, lock, accepted, lin >>
  /\ ConcFrame

\* update_user, last lines: self.users.insert(id, new_user.clone()); Some(new_user)
UpdateInsert(t) ==
  /\ tasks[t].pc = "update_insert"
  /\ state' = [state EXCEPT !.users =
                 HashMap_insert(state.users, tasks[t].req.id, unwrap(tasks[t].local))]
  /\ tasks' = [tasks EXCEPT ![t].pc = "respond", ![t].ret = tasks[t].local]
  /\ UNCHANGED << lock, accepted, lin >>
  /\ ConcFrame

\* delete_user: self.users.remove(&id)
RunDeleteUser(t) ==
  /\ tasks[t].pc = "delete"
  /\ LET r == HashMap_remove(state.users, tasks[t].req.id)
     IN  /\ state' = [state EXCEPT !.users = r.map]
         /\ tasks' = [tasks EXCEPT ![t].pc = "respond", ![t].ret = r.ret]
  /\ UNCHANGED << lock, accepted, lin >>
  /\ ConcFrame

\* the handler returns: the result is encoded, the guard dropped, the
\* response sent
Respond(t) ==
  /\ tasks[t].pc = "respond"
  /\ lock' = MutexGuard_drop(lock, t)
  /\ tasks' = [tasks EXCEPT ![t].pc = "idle",
                            ![t].resp = handler_response(tasks[t].req.op, tasks[t].ret)]
  /\ lin' = [lin EXCEPT !.done = lin.done \cup {tasks[t].idx}]
  /\ UNCHANGED << state, accepted >>
  /\ ConcFrame

NextConc ==
  \E t \in Tasks :
    \/ Invoke(t)
    \/ Acquire(t)
    \/ RunGetUsers(t)
    \/ RunGetUser(t)
    \/ CreateBuild(t)
    \/ CreateInsert(t)
    \/ CreateIncr(t)
    \/ UpdateLookup(t)
    \/ UpdateInsert(t)
    \/ RunDeleteUser(t)
    \/ Respond(t)

SpecConc == InitConc /\ [][NextConc]_vars

(***************************************************************************)
(* The users handlers with cancellation (SpecCancel, SpecCancelFair).  The *)
(* request tasks are those of SpecConc; here the hand-over of the lock and *)
(* the task's next poll are two steps, and a task can be dropped at its    *)
(* await point.                                                            *)
(***************************************************************************)
NumCancelTasks == 2
MaxCancelRequests == 2
CancelTasks == 1 .. NumCancelTasks

CancelRequests ==
  { Request("list", 0, None), Request("get", 0, None), Request("delete", 0, None),
    Request("create", 0, Some([name |-> "Alice", email |-> "a@x.com"])),
    Request("update", 0, Some([name |-> Some("Bob"), email |-> None])) }

\* the handlers' only await is state.lock().await (context.rs 449, 453, 457,
\* 461, 465): a task can be dropped while it waits for the permit or after
\* the permit was handed to it and before it is polled again
is_suspended_anywhere(pc) == pc \notin {"idle", "cancelled_waiting", "cancelled_granted"}
is_suspended(pc) == pc \in {"lock", "granted"}

\* where a dropped task stays: it sends no response
Cancelled == {"cancelled_waiting", "cancelled_granted"}
cancelled_at(pc) == IF pc = "lock" THEN "cancelled_waiting" ELSE "cancelled_granted"

\* dropping a handler future that has not returned from lock().await: the
\* store method was never called, the store is what it was
dropped_before_call_detached(st, req) == SeqApply(st, req).state
dropped_before_call(st, req) == st

InitCancel ==
  /\ app = "users"
  /\ state = UsersState_new
  /\ db = TodoDb_new
  /\ issued = << >>
  /\ deleted = {}
  /\ last = NoRequest
  /\ lock = 0
  /\ tasks = [t \in CancelTasks |-> IdleTask]
  /\ accepted = 0
  /\ lin = [state |-> UsersState_new, n |-> 0, done |-> {}]
  /\ rate_arc = << >>
  /\ rate_lock = 0
  /\ rtasks = << >>
  /\ rate_hist = << >>
  /\ exercise_log = << >>

\* a request arrives: axum spawns the handler, which awaits the lock
InvokeCancellable(t) ==
  /\ tasks[t].pc \in {"idle"} \cup Cancelled
  /\ accepted < MaxCancelRequests
  /\ \E req \in CancelRequests :
       tasks' = [tasks EXCEPT ![t] =
                   Task("lock", req, None, None, None, {}, 0, lin.done)]
  /\ accepted' = accepted + 1
  /\ UNCHANGED << state, lock, lin >>
  /\ ConcFrame

\* state.lock().await: the mutex hands its permit to the waiting task
AcquirePermit(t) ==
  /\ tasks[t].pc = "lock"
  /\ lock_is_free(lock)
  /\ lock' = t
  /\ tasks' = [tasks EXCEPT ![t].pc = "granted"]
  /\ UNCHANGED << state, accepted, lin >>
  /\ ConcFrame

\* the task is polled again: lock().await returns the guard and the
\* handler calls the store method
Start(t) ==
  /\ tasks[t].pc = "granted"
  /\ LET r == SeqApply(lin.state, tasks[t].req)
     IN  /\ lin' = [lin EXCEPT !.state = r.state, !.n = lin.n + 1]
         /\ tasks' = [tasks EXCEPT ![t].pc = tasks[t].req.op,
                                   ![t].exp = r.rets,
                                   ![t].idx = lin.n + 1]
  /\ UNCHANGED << state, lock, accepted >>
  /\ ConcFrame

\* the request task is dropped at its await point (client disconnect,
\* abort): the lock future returns a permit it was handed, the extracted
\* request values are dropped, no store method has run
Cancel(t) ==
  /\ is_suspended(tasks[t].pc)
  /\ lock' = MutexGuard_drop(lock, t)
  /\ state' = dropped_before_call(state, tasks[t].req)
  /\ tasks' = [tasks EXCEPT ![t].pc = cancelled_at(tasks[t].pc)]
  /\ UNCHANGED << accepted, lin >>
  /\ ConcFrame

\* the steps the runtime takes for a task once it is runnable: a spawned
\* task that can be polled is polled, and a poll after the permit runs the
\* handler to its return
Progress(t) ==
  \/ AcquirePermit(t)
  \/ Start(t)
  \/ RunGetUsers(t)
  \/ RunGetUser(t)
  \/ CreateBuild(t)
  \/ CreateInsert(t)
  \/ CreateIncr(t)
  \/ UpdateLookup(t)
  \/ UpdateInsert(t)
  \/ RunDeleteUser(t)
  \/ Respond(t)

\* a request's arrival and its cancellation are the client's steps
NextCancel ==
  \E t \in CancelTasks :
    \/ InvokeCancellable(t)
    \/ Cancel(t)
    \/ Progress(t)

SpecCancel == InitCancel /\ [][NextCancel]_vars

SpecCancelFair ==
  InitCancel /\ [][NextCancel]_vars /\ \A t \in CancelTasks : WF_vars(Progress(t))

(***************************************************************************)
(* The exchange-rate exercise.  A request body is a sequence of            *)
(* characters.  An f64 is modelled by the decimal m / 10^e it stands for,  *)
(* kept without trailing zeros; on the bodies of RateBodies, UsdBodies and *)
(* GbpBodies the products and quotients of the program are such decimals   *)
(* and display as them.                                                    *)
(***************************************************************************)
Digits == << "0", "1", "2", "3", "4", "5", "6", "7", "8", "9" >>
IsDigit(c) == \E i \in DOMAIN Digits : Digits[i] = c
DigitVal(c) == (CHOOSE i \in DOMAIN Digits : Digits[i] = c) - 1

RECURSIVE Pow10(_)
Pow10(n) == IF n = 0 THEN 1 ELSE 10 * Pow10(n - 1)

Dec(m, e) == [m |-> m, e |-> e]

RECURSIVE Dec_norm(_)
Dec_norm(d) ==
  IF d.e > 0 /\ d.m % 10 = 0 THEN Dec_norm(Dec(d.m \div 10, d.e - 1)) ELSE d

RECURSIVE DigitsValue(_)
DigitsValue(s) ==
  IF s = << >> THEN 0
  ELSE DigitsValue(SubSeq(s, 1, Len(s) - 1)) * 10 + DigitVal(s[Len(s)])

\* str::parse::<f64> on bodies made of digits and ".": Some(value), or None
\* for the Err that unwrap() turns into a panic
parse_f64(s) ==
  LET dots == { i \in DOMAIN s : s[i] = "." }
      digits == SelectSeq(s, IsDigit)
  IN  IF /\ \A i \in DOMAIN s : IsDigit(s[i]) \/ s[i] = "."
         /\ Cardinality(dots) <= 1
         /\ digits # << >>
        THEN Some(Dec_norm(Dec(DigitsValue(digits),
                               IF dots = {} THEN 0
                               ELSE Len(s) - (CHOOSE i \in dots : TRUE))))
        ELSE None

RECURSIVE NatToString(_)
NatToString(n) ==
  IF n < 10 THEN << Digits[n + 1] >>
  ELSE NatToString(n \div 10) \o << Digits[(n % 10) + 1] >>

\* the k low decimal digits of n, with leading zeros
RECURSIVE FracToString(_, _)
FracToString(n, k) ==
  IF k = 0 THEN << >>
  ELSE FracToString(n \div 10, k - 1) \o << Digits[(n % 10) + 1] >>

\* f64::to_string: the integer part, and "." and the fraction when there
\* is one ("130", not "130.0")
f64_to_string(d) ==
  LET n == Dec_norm(d)
  IN  NatToString(n.m \div Pow10(n.e))
        \o (IF n.e > 0 THEN << "." >> \o FracToString(n.m % Pow10(n.e), n.e) ELSE << >>)

f64_mul(a, b) == Dec_norm(Dec(a.m * b.m, a.e + b.e))

\* a / b where the quotient has at most four decimal places
f64_div(a, b) ==
  LET num == a.m * Pow10(b.e)
      den == b.m * Pow10(a.e)
      k == CHOOSE j \in 0 .. 4 : (num * Pow10(j)) % den = 0
  IN  Dec_norm(Dec((num * Pow10(k)) \div den, k))

\* the converters: Some(text), or None when unwrap() panics
convert_usd_to_gbp(usd, rate) ==
  LET p == parse_f64(usd)
  IN  IF is_none(p) THEN None ELSE Some(f64_to_string(f64_mul(unwrap(p), rate)))

convert_gbp_to_usd(gbp, rate) ==
  LET p == parse_f64(gbp)
  IN  IF is_none(p) THEN None ELSE Some(f64_to_string(f64_div(unwrap(p), rate)))

\* let _gbp_to_usd_rate = 1.3
gbp_to_usd_rate == Dec(13, 1)

\* variant: the handler converts with the rate the router was built with
mutable_usd_to_gbp_handler_copy(rate, amount) ==
  convert_usd_to_gbp(amount, gbp_to_usd_rate)

\* the handlers, given the f64 read through the guard
mutable_usd_to_gbp_handler(rate, amount) == convert_usd_to_gbp(amount, rate)
mutable_gbp_to_usd_handler(rate, amount) == convert_gbp_to_usd(amount, rate)

\* the outcome of a request: a response, or the panic of its task
Replied(body) == [outcome |-> "response", status |-> StatusCode_OK, body |-> body]
Panicked == [outcome |-> "panic", status |-> 0, body |-> << >>]
NoOutcome == [outcome |-> "none", status |-> 0, body |-> << >>]
handler_outcome(r) == IF is_some(r) THEN Replied(unwrap(r)) ELSE Panicked

(***************************************************************************)
(* SpecRate: the router of exercise 4 with several requests in flight.     *)
(***************************************************************************)
\* number of request tasks that can be in flight together
NumRateTasks == 2
\* number of requests accepted in one run of SpecRate
MaxRateRequests == 3

RateTasks == 1 .. NumRateTasks

Str100 == << "1", "0", "0" >>
RateBodies == { << "1", ".", "7" >>, << "2", ".", "5" >>, << "x" >> }
UsdBodies == { Str100, << "x" >> }
GbpBodies == { << "2", "2", "1" >> }

RateRequests ==
  { [route |-> "/set_exchange_rate", body |-> b] : b \in RateBodies }
    \cup { [route |-> "/usd_to_gbp", body |-> b] : b \in UsdBodies }
    \cup { [route |-> "/gbp_to_usd", body |-> b] : b \in GbpBodies }

IsSet(t) == rtasks[t].req.route = "/set_exchange_rate"
InFlight(t) == rtasks[t].pc # "idle"

\* a task: where it is in its handler, its request, the parsed new rate (set
\* requests), the outcome, and as history the rate a conversion must use
\* (expect): the rate last stored when the request arrived, or None when a
\* set request was in flight then or arrived since
RateTask(pc, req, local, out, expect) ==
  [pc |-> pc, req |-> req, local |-> local, out |-> out, expect |-> expect]

IdleRateTask ==
  RateTask("idle", [route |-> "none", body |-> << >>], None, NoOutcome, None)

InitRate ==
  /\ app = "rates"
  /\ state = UsersState_new
  /\ db = TodoDb_new
  /\ issued = << >>
  /\ deleted = {}
  /\ last = NoRequest
  /\ lock = 0
  /\ tasks = << >>
  /\ accepted = 0
  /\ lin = << >>
  /\ rate_arc = gbp_to_usd_rate
  /\ rate_lock = 0
  /\ rtasks = [t \in RateTasks |-> IdleRateTask]
  /\ rate_hist = [accepted |-> 0, stored |-> gbp_to_usd_rate, sets |-> 0]
  /\ exercise_log = << >>

RateFrame == UNCHANGED << seqvars, concvars, exvars >>

\* a request arrives and its handler starts
RateInvoke(t) ==
  /\ rtasks[t].pc = "idle"
  /\ rate_hist.accepted < MaxRateRequests
  /\ \E req \in RateRequests :
       LET set == req.route = "/set_exchange_rate"
           quiet == \A u \in RateTasks : InFlight(u) => ~IsSet(u)
           new == RateTask(IF set THEN "parse" ELSE "lock", req, None, NoOutcome,
                           IF ~set /\ quiet THEN Some(rate_hist.stored) ELSE None)
       IN  rtasks' = [u \in RateTasks |->
                        IF u = t THEN new
                        ELSE IF set /\ InFlight(u)
                               THEN [rtasks[u] EXCEPT !.expect = None]
                               ELSE rtasks[u]]
  /\ rate_hist' = [rate_hist EXCEPT !.accepted = rate_hist.accepted + 1]
  /\ UNCHANGED << rate_arc, rate_lock >>
  /\ RateFrame

\* set_exchange_rate_handler: the assigned value is evaluated first,
\* new_amount.parse::<f64>().unwrap(); on Err the task panics
SetParse(t) ==
  /\ rtasks[t].pc = "parse"
  /\ LET p == parse_f64(rtasks[t].req.body)
     IN  IF is_none(p)
           THEN rtasks' = [rtasks EXCEPT ![t].pc = "idle", ![t].out = Panicked]
           ELSE rtasks' = [rtasks EXCEPT ![t].pc = "lock", ![t].local = p]
  /\ UNCHANGED << rate_arc, rate_lock, rate_hist >>
  /\ RateFrame

\* rate_arc.lock().await returns the guard
RateAcquire(t) ==
  /\ rtasks[t].pc = "lock"
  /\ lock_is_free(rate_lock)
  /\ rate_lock' = t
  /\ rtasks' = [rtasks EXCEPT ![t].pc = "locked"]
  /\ UNCHANGED << rate_arc, rate_hist >>
  /\ RateFrame

\* set_exchange_rate_handler: *guard = value; the guard is dropped
SetStore(t) ==
  /\ rtasks[t].pc = "locked"
  /\ IsSet(t)
  /\ rate_arc' = unwrap(rtasks[t].local)
  /\ rate_lock' = MutexGuard_drop(rate_lock, t)
  /\ rate_hist' = [rate_hist EXCEPT !.stored = unwrap(rtasks[t].local),
                                    !.sets = IF rate_hist.sets < 2 THEN rate_hist.sets + 1 ELSE 2]
  /\ rtasks' = [rtasks EXCEPT ![t].pc = "respond", ![t].out = Replied(<< >>)]
  /\ RateFrame

\* mutable_usd_to_gbp_handler: the rate is read through the guard and the
\* amount converted; the guard is dropped
UsdToGbp(t) ==
  /\ rtasks[t].pc = "locked"
  /\ rtasks[t].req.route = "/usd_to_gbp"
  /\ rate_lock' = MutexGuard_drop(rate_lock, t)
  /\ rtasks' = [rtasks EXCEPT
       ![t].pc = "respond",
       ![t].out = handler_outcome(mutable_usd_to_gbp_handler(rate_arc, rtasks[t].req.body))]
  /\ UNCHANGED << rate_arc, rate_hist >>
  /\ RateFrame

\* mutable_gbp_to_usd_handler
GbpToUsd(t) ==
  /\ rtasks[t].pc = "locked"
  /\ rtasks[t].req.route = "/gbp_to_usd"
  /\ rate_lock' = MutexGuard_drop(rate_lock, t)
  /\ rtasks' = [rtasks EXCEPT
       ![t].pc = "respond",
       ![t].out = handler_outcome(mutable_gbp_to_usd_handler(rate_arc, rtasks[t].req.body))]
  /\ UNCHANGED << rate_arc, rate_hist >>
  /\ RateFrame

\* the response is sent (or the panicked task ends): the request is complete
RateRespond(t) ==
  /\ rtasks[t].pc = "respond"
  /\ rtasks' = [rtasks EXCEPT ![t].pc = "idle"]
  /\ UNCHANGED << rate_arc, rate_lock, rate_hist >>
  /\ RateFrame

NextRate ==
  \E t \in RateTasks :
    \/ RateInvoke(t)
    \/ SetParse(t)
    \/ RateAcquire(t)
    \/ SetStore(t)
    \/ UsdToGbp(t)
    \/ GbpToUsd(t)
    \/ RateRespond(t)

SpecRate == InitRate /\ [][NextRate]_vars

(***************************************************************************)
(* SpecExercises: the routers of exercise 3 (State<f64>), exercise 5       *)
(* (state AllExchangeRates) and exercise 6 (extensions), each answering    *)
(* one request at a time.                                                  *)
(***************************************************************************)
\* number of requests served in one run of SpecExercises
MaxExerciseRequests == 2

\* exercise 3: the router state, let _gbp_to_usd_rate = 1.3
state_gbp_to_usd_rate == Dec(13, 1)

\* exercise 5: AllExchangeRates { gbp_to_usd: GBPtoUSD(1.3), eur_to_usd: EURtoUSD(1.2) }
AllExchangeRates == [gbp_to_usd |-> Dec(13, 1), eur_to_usd |-> Dec(12, 1)]

\* exercise 3 handlers
usd_to_gbp_handler(rate, amount) == convert_usd_to_gbp(amount, rate)
gbp_to_usd_handler(rate, amount) == convert_gbp_to_usd(amount, rate)

\* exercise 5 handlers: todo!("Use State to access the exchange rate")
\* panics, whatever the body and the router state
generic_usd_to_gbp_handler(price) == None
generic_gbp_to_usd_handler(price) == None
generic_eur_to_usd_handler(price) == None
generic_usd_to_eur_handler(price) == None

\* exercise 6 handlers: todo!("Use Extensions to access the exchange rate")
\* panics; the handlers take no argument and the router installs no extension
extension_usd_to_gbp_handler == None
extension_gbp_to_usd_handler == None

ExerciseBodies == { Str100, << "x" >> }

\* a served request: the exercise, the route, the body, the state of the
\* router and the outcome
ServedExercise(exercise, route, body, router_state, out) ==
  [exercise |-> exercise, route |-> route, body |-> body,
   router_state |-> router_state, out |-> out]

InitExercises ==
  /\ app = "exercises"
  /\ state = UsersState_new
  /\ db = TodoDb_new
  /\ issued = << >>
  /\ deleted = {}
  /\ last = NoRequest
  /\ lock = 0
  /\ tasks = << >>
  /\ accepted = 0
  /\ lin = << >>
  /\ rate_arc = << >>
  /\ rate_lock = 0
  /\ rtasks = << >>
  /\ rate_hist = << >>
  /\ exercise_log = << >>

\* the request is served with outcome out
Serve(exercise, route, body, router_state, out) ==
  /\ Len(exercise_log) < MaxExerciseRequests
  /\ exercise_log' = Append(exercise_log,
                            ServedExercise(exercise, route, body, router_state, out))
  /\ UNCHANGED << seqvars, concvars, ratevars >>

\* exercise 3, GET /usd_to_gbp
StateUsdToGbp ==
  /\ app = "exercises"
  /\ \E b \in ExerciseBodies :
    Serve("state", "/usd_to_gbp", b, state_gbp_to_usd_rate,
          handler_outcome(usd_to_gbp_handler(state_gbp_to_usd_rate, b)))

\* exercise 3, GET /gbp_to_usd
StateGbpToUsd ==
  /\ app = "exercises"
  /\ \E b \in GbpBodies :
    Serve("state", "/gbp_to_usd", b, state_gbp_to_usd_rate,
          handler_outcome(gbp_to_usd_handler(state_gbp_to_usd_rate, b)))

\* exercise 5, GET /usd_to_gbp
GenericUsdToGbp ==
  /\ app = "exercises"
  /\ \E b \in ExerciseBodies :
    Serve("generic", "/usd_to_gbp", b, AllExchangeRates,
          handler_outcome(generic_usd_to_gbp_handler(b)))

\* exercise 5, GET /gbp_to_usd
GenericGbpToUsd ==
  /\ app = "exercises"
  /\ \E b \in ExerciseBodies :
    Serve("generic", "/gbp_to_usd", b, AllExchangeRates,
          handler_outcome(generic_gbp_to_usd_handler(b)))

\* exercise 5, GET /eur_to_usd
GenericEurToUsd ==
  /\ app = "exercises"
  /\ \E b \in ExerciseBodies :
    Serve("generic", "/eur_to_usd", b, AllExchangeRates,
          handler_outcome(generic_eur_to_usd_handler(b)))

\* exercise 5, GET /usd_to_eur
GenericUsdToEur ==
  /\ app = "exercises"
  /\ \E b \in ExerciseBodies :
    Serve("generic", "/usd_to_eur", b, AllExchangeRates,
          handler_outcome(generic_usd_to_eur_handler(b)))

\* exercise 6, GET /usd_to_gbp
ExtensionUsdToGbp ==
  /\ app = "exercises"
  /\ \E b \in ExerciseBodies :
    Serve("extension", "/usd_to_gbp", b, None,
          handler_outcome(extension_usd_to_gbp_handler))

\* exercise 6, GET /gbp_to_usd
ExtensionGbpToUsd ==
  /\ app = "exercises"
  /\ \E b \in ExerciseBodies :
    Serve("extension", "/gbp_to_usd", b, None,
          handler_outcome(extension_gbp_to_usd_handler))

NextExercises ==
  \/ StateUsdToGbp
  \/ StateGbpToUsd
  \/ GenericUsdToGbp
  \/ GenericGbpToUsd
  \/ GenericEurToUsd
  \/ GenericUsdToEur
  \/ ExtensionUsdToGbp
  \/ ExtensionGbpToUsd

SpecExercises == InitExercises /\ [][NextExercises]_vars

(***************************************************************************)
(* SpecPair: the in-memory store and the todos repository side by side.    *)
(* Every request is given to both: a todo's title is the user's name, its  *)
(* description the user's email, and the k-th record created is user k-1   *)
(* and the todo with the k-th value of the table's key.                    *)
(***************************************************************************)
\* number of create requests served in one run of SpecPair
MaxPairCreates == 2

\* positions of created records that a request may name: every position a
\* create can reach within the bound, and one more
PairKeys == 0 .. MaxPairCreates
PairCreates == [title : Titles, description : Descriptions]
PairUpdates ==
  { [title |-> None,       description |-> None,       done |-> None],
    [title |-> Some("t2"), description |-> None,       done |-> None],
    [title |-> None,       description |-> Some("d2"), done |-> None],
    [title |-> None,       description |-> None,       done |-> Some(TRUE)],
    [title |-> Some("t1"), description |-> Some("d1"), done |-> None],
    [title |-> Some("t2"), description |-> Some("d1"), done |-> Some(FALSE)] }

\* the identifiers of the k-th record in the two stores
UserIdOf(k) == k
TodoIdOf(k) == k + FirstTodoId

\* the same payloads as the users handlers take them
AsProtoUser(c) == [name |-> c.title, email |-> c.description]
AsUserUpdate(u) == [name |-> u.title, email |-> u.description]

\* what both stores held and returned for one request
Both(u, t) == [user |-> u, todo |-> t]

InitPair ==
  /\ app = "pair"
  /\ state = UsersState_new
  /\ db = TodoDb_new
  /\ issued = << >>
  /\ deleted = {}
  /\ last = NoRequest
  /\ lock = 0
  /\ tasks = << >>
  /\ accepted = 0
  /\ lin = << >>
  /\ rate_arc = << >>
  /\ rate_lock = 0
  /\ rtasks = << >>
  /\ rate_hist = << >>
  /\ exercise_log = << >>

PairFrame == UNCHANGED << app, concvars, ratevars, exvars >>

\* get_users() and get_all()
PairList ==
  /\ \E u \in UsersState_get_users(state), t \in TodoRepoPostgres_get_all(db) :
       last' = Served("list", 0, None, Both(state, db), Both(u, t), None)
  /\ UNCHANGED << state, db, issued, deleted >>
  /\ PairFrame

\* get_user(id) and get(id)
PairGet ==
  /\ \E k \in PairKeys :
       last' = Served("get", k, None, Both(state, db),
                      Both(UsersState_get_user(state, UserIdOf(k)),
                           TodoRepoPostgres_get(db, TodoIdOf(k))),
                      None)
  /\ UNCHANGED << state, db, issued, deleted >>
  /\ PairFrame

\* create_user(proto_user) and create(title, description)
PairCreate ==
  /\ Len(issued) < MaxPairCreates
  /\ \E c \in PairCreates :
       LET u == UsersState_create_user(state, AsProtoUser(c))
           t == TodoRepoPostgres_create(db, c.title, c.description)
       IN  /\ state' = u.state
           /\ db' = t.db
           /\ issued' = Append(issued, Both(u.ret.id, t.ret.id))
           /\ last' = Served("create", Len(issued), Some(c), Both(state, db),
                             Both(Some(u.ret), Some(t.ret)), None)
  /\ UNCHANGED deleted
  /\ PairFrame

\* update_user(id, update) and update(id, title, description, done)
PairUpdate ==
  /\ \E k \in PairKeys, up \in PairUpdates :
       LET u == UsersState_update_user(state, UserIdOf(k), AsUserUpdate(up))
           t == TodoRepoPostgres_update(db, TodoIdOf(k), up.title, up.description, up.done)
       IN  /\ state' = u.state
           /\ db' = t.db
           /\ last' = Served("update", k, Some(up), Both(state, db),
                             Both(u.ret, t.ret), None)
  /\ UNCHANGED << issued, deleted >>
  /\ PairFrame

\* delete_user(id) and delete(id)
PairDelete ==
  /\ \E k \in PairKeys :
       LET u == UsersState_delete_user(state, UserIdOf(k))
           t == TodoRepoPostgres_delete(db, TodoIdOf(k))
       IN  /\ state' = u.state
           /\ db' = t.db
           /\ deleted' = IF is_some(u.ret) \/ is_some(t.ret) THEN deleted \cup {k} ELSE deleted
           /\ last' = Served("delete", k, None, Both(state, db),
                             Both(u.ret, t.ret), None)
  /\ UNCHANGED issued
  /\ PairFrame

NextPair ==
  \/ PairList
  \/ PairGet
  \/ PairCreate
  \/ PairUpdate
  \/ PairDelete

SpecPair == InitPair /\ [][NextPair]_vars

(***************************************************************************)
(* Properties of the sequential store (checked under Spec).                *)
(***************************************************************************)
Range(s) == { s[i] : i \in DOMAIN s }
IsUsers == app = "users"
\* the last request was op and its path id had a live record before it
LastOn(op) == IsUsers /\ last.op = op
LastLive == last.id \in DOMAIN last.pre.users

\* C1: the identifiers returned by create on one UsersState are pairwise
\* distinct, whatever gets, lists, updates and deletes happen in between.
C1_IdsPairwiseDistinct ==
  IsUsers => \A i, j \in DOMAIN issued : i # j => issued[i] # issued[j]

\* a create was served after a delete had removed an earlier record
C1_Witness ==
  /\ LastOn("create")
  /\ Len(issued) >= 2
  /\ deleted # {}
  /\ unwrap(last.ret).id \notin deleted

\* the record a partial update U must produce from the record R
Merged(R, U) ==
  [id    |-> R.id,
   name  |-> IF U.name = None THEN R.name ELSE U.name[1],
   email |-> IF U.email = None THEN R.email ELSE U.email[1]]

\* C2: update(R.id, U) on a live record R returns and stores the record
\* with R's id, U's supplied fields and R's values for the omitted fields,
\* and get(R.id) then returns that record.
C2_PartialUpdate ==
  (LastOn("update") /\ LastLive) =>
    LET R == last.pre.users[last.id]
        U == unwrap(last.arg)
    IN  /\ R.id = last.id
        /\ last.ret = Some(Merged(R, U))
        /\ state.users[last.id] = Merged(R, U)
        /\ get_user(state, last.id).ret = last.ret

\* an update that supplied the name only changed it and kept the email
C2_Witness ==
  /\ LastOn("update")
  /\ LastLive
  /\ unwrap(last.arg) = [name |-> Some("Bob"), email |-> None]
  /\ last.pre.users[last.id] = User(0, "Alice", "a@x.com")
  /\ last.ret = Some(User(0, "Bob", "a@x.com"))

\* the three by-id operations signal not-found for id in store st
NotFound(st, id) ==
  /\ is_none(UsersState_get_user(st, id))
  /\ \A u \in UserUpdate : is_none(UsersState_update_user(st, id, u).ret)
  /\ is_none(UsersState_delete_user(st, id).ret)

\* C4: once delete(id) has succeeded, get, update and delete of that id
\* signal not-found in every later state, also after further creates.
C4_DeleteIsTerminal ==
  IsUsers =>
    /\ \A id \in deleted : NotFound(state, id)
    /\ (last.op \in {"get", "update", "delete"} /\ last.id \in deleted)
         => (last.op = "delete" /\ LastLive) \/ is_none(last.ret)

\* a get of a deleted id was answered not-found after a later create
C4_Witness ==
  /\ LastOn("get")
  /\ last.id \in deleted
  /\ is_none(last.ret)
  /\ \E i \in DOMAIN issued : issued[i] > last.id

\* C5: for every identifier no create has returned so far, get, update and
\* delete return None.
C5_NotFoundOnUnknownId ==
  IsUsers =>
    /\ \A id \in Ids \ Range(issued) : NotFound(state, id)
    /\ (last.op \in {"get", "update", "delete"} /\ last.id \notin Range(issued))
         => is_none(last.ret)

\* an update of an identifier never handed out was answered not-found
\* while other records were live
C5_Witness ==
  /\ LastOn("update")
  /\ last.id \notin Range(issued)
  /\ is_none(last.ret)
  /\ DOMAIN state.users # {}

\* the identifiers for which get succeeds in store st
GetSucceeds(st) == { id \in Ids : is_some(UsersState_get_user(st, id)) }

\* the vector v lists exactly the records get returns in store st
ListsStore(v, st) ==
  /\ { v[i].id : i \in DOMAIN v } = GetSucceeds(st)
  /\ \A i \in DOMAIN v : UsersState_get_user(st, v[i].id) = Some(v[i])

\* C6: in every state the identifiers of the records list() returns are
\* exactly those for which get succeeds, and each listed record is the one
\* get returns for its identifier.
C6_ListReflectsStore ==
  IsUsers =>
    /\ \A v \in UsersState_get_users(state) : ListsStore(v, state)
    /\ last.op = "list" => ListsStore(last.ret, state)

\* a list of two live records was served after a delete
C6_Witness ==
  /\ LastOn("list")
  /\ Len(last.ret) = 2
  /\ deleted # {}

\* C7: the generator starts at zero and advances by one per create and by
\* nothing else: the k-th create returns id k-1 with the supplied name and
\* email, and get(k-1) returns that record right after.
C7_KthCreate ==
  IsUsers =>
    /\ state.next_id = Len(issued)
    /\ \A k \in DOMAIN issued : issued[k] = k - 1
    /\ last.op = "create" =>
         LET k == Len(issued)
             p == unwrap(last.arg)
         IN  /\ last.ret = Some(User(k - 1, p.name, p.email))
             /\ UsersState_get_user(state, k - 1) = last.ret

\* the second create, served after the first record was deleted, got id 1
C7_Witness ==
  /\ LastOn("create")
  /\ Len(issued) = 2
  /\ 0 \in deleted
  /\ last.ret = Some(User(1, "Alice", "a@x.com"))

\* C8: delete(id) on a live identifier returns the record as last stored
\* and removes that record and no other.
C8_DeleteReturnsStored ==
  (LastOn("delete") /\ LastLive) =>
    /\ last.ret = Some(last.pre.users[last.id])
    /\ is_none(UsersState_get_user(state, last.id))
    /\ \A k \in (DOMAIN last.pre.users) \ {last.id} :
         UsersState_get_user(state, k) = Some(last.pre.users[k])
    /\ state.next_id = last.pre.next_id

\* the record created as Alice and renamed Bob was deleted and returned as
\* Bob, with another record still live
C8_Witness ==
  /\ LastOn("delete")
  /\ last.ret = Some(User(0, "Bob", "a@x.com"))
  /\ UsersState_get_user(state, 1) = Some(User(1, "Alice", "b@x.com"))

(***************************************************************************)
(* Properties of the concurrent users server (checked under SpecConc).     *)
(***************************************************************************)
InMethod == {"list", "get", "create", "create_insert", "create_incr",
             "update", "update_insert", "delete", "respond"}
Answered(t) == tasks[t].pc = "idle" /\ tasks[t].req.op # "none"

\* C3: with several handlers in flight on the one Arc<Mutex<UsersState>>,
\* every response and the store are those of the same requests run one at
\* a time in an order that respects their invocation/response order: a
\* handler holds the guard for its whole method, so no handler sees or
\* leaves a partly applied mutation.
C3_Linearizable ==
  /\ \A t \in Tasks :
       /\ tasks[t].pc \in InMethod => lock = t
       /\ (tasks[t].pc = "respond" \/ Answered(t)) =>
            /\ tasks[t].ret \in tasks[t].exp
            /\ \A i \in tasks[t].before : i < tasks[t].idx
       /\ Answered(t) =>
            tasks[t].resp = handler_response(tasks[t].req.op, tasks[t].ret)
  /\ lock = 0 => state = lin.state

\* two creates were in flight together (neither was answered before the
\* other arrived) and both were answered, with different identifiers
C3_Witness ==
  \E t1, t2 \in Tasks :
    /\ t1 # t2
    /\ Answered(t1) /\ Answered(t2)
    /\ tasks[t1].req.op = "create" /\ tasks[t2].req.op = "create"
    /\ tasks[t1].idx \notin tasks[t2].before
    /\ tasks[t2].idx \notin tasks[t1].before
    /\ unwrap(tasks[t1].ret).id = 0
    /\ unwrap(tasks[t2].ret).id = 1

\* the records of the store (either server) before the last request
PreRecords == IF IsUsers THEN last.pre.users ELSE last.pre.todos
NotFoundBody == [kind |-> "raw", items |-> << >>, text |-> "{message:\"\"}"]

\* C9: GET/PUT/DELETE on /users/{id} and /todos/{id} answer 404 with the
\* body {message:""} when the id has no live record and 200 with the
\* record when it has one; GET and POST on the collection answer 200 with
\* the records.
C9_HttpNotFound ==
  /\ (last.op \in {"get", "update", "delete"} /\ last.id \notin DOMAIN PreRecords)
       => /\ last.resp.status = 404
          /\ last.resp.body = NotFoundBody
  /\ (last.op \in {"get", "update", "delete"} /\ last.id \in DOMAIN PreRecords)
       => /\ last.resp.status = 200
          /\ last.resp.body.kind = "object"
          /\ last.resp.body.items = last.ret
          /\ Len(last.ret) = 1
          /\ last.ret[1].id = last.id
  /\ last.op = "create"
       => /\ last.resp.status = 200
          /\ last.resp.body.kind = "object"
          /\ last.resp.body.items = last.ret
          /\ Len(last.ret) = 1
  /\ last.op = "list"
       => /\ last.resp.status = 200
          /\ last.resp.body.kind = "array"
          /\ last.resp.body.items = last.ret
          /\ Len(last.ret) = Cardinality(DOMAIN PreRecords)

\* a DELETE of an id whose record was deleted before was answered 404
C9_Witness ==
  /\ last.op = "delete"
  /\ last.id \in deleted
  /\ last.id \notin DOMAIN PreRecords
  /\ last.resp.status = 404
  /\ last.resp.body.text = "{message:\"\"}"

(***************************************************************************)
(* Properties of the exchange-rate router (checked under SpecRate).        *)
(***************************************************************************)
RateAnswered(t) == rtasks[t].pc \in {"respond", "idle"} /\ rtasks[t].req.route # "none"
Str170 == << "1", "7", "0" >>

\* the text a conversion of body on route must answer at rate r
Converted(route, body, r) ==
  IF route = "/usd_to_gbp" THEN convert_usd_to_gbp(body, r) ELSE convert_gbp_to_usd(body, r)

\* C10: once a PUT /set_exchange_rate with rate r has completed, every
\* conversion request issued afterwards, and before any later set, is
\* computed with r: from 1.3, setting 1.7 and converting "100" by
\* /usd_to_gbp answers "170".
C10_SetRateVisible ==
  \A t \in RateTasks :
    (RateAnswered(t) /\ ~IsSet(t) /\ is_some(rtasks[t].expect)) =>
      LET r == unwrap(rtasks[t].expect)
      IN  /\ rtasks[t].out =
               handler_outcome(Converted(rtasks[t].req.route, rtasks[t].req.body, r))
          /\ (r = Dec(17, 1) /\ rtasks[t].req = [route |-> "/usd_to_gbp", body |-> Str100])
               => rtasks[t].out = Replied(Str170)
          /\ (r = Dec(13, 1) /\ rtasks[t].req = [route |-> "/usd_to_gbp", body |-> Str100])
               => rtasks[t].out = Replied(<< "1", "3", "0" >>)

\* one set request, with body "1.7", has completed, and a conversion of
\* "100" by /usd_to_gbp issued after it was answered "170"
C10_Witness ==
  \E t \in RateTasks :
    /\ rtasks[t].pc = "idle"
    /\ rtasks[t].req = [route |-> "/usd_to_gbp", body |-> Str100]
    /\ rtasks[t].expect = Some(Dec(17, 1))
    /\ rate_hist.sets = 1
    /\ rtasks[t].out = Replied(Str170)

(***************************************************************************)
(* Properties of the two stores side by side (checked under SpecPair).     *)
(***************************************************************************)
\* the user and the todo are the same record: corresponding identifiers,
\* name = title, email = description
SameRecord(u, t, k) ==
  /\ u.id = UserIdOf(k) /\ t.id = TodoIdOf(k)
  /\ u.name = t.title /\ u.email = t.description

\* the todo an update up of the row old must return
Coalesced(old, up) ==
  [id          |-> old.id,
   title       |-> IF up.title = None THEN old.title ELSE up.title[1],
   description |-> IF up.description = None THEN old.description ELSE up.description[1],
   done        |-> IF up.done = None THEN old.done ELSE up.done[1]]

\* C11: on the same sequence of requests the todos repository and the
\* in-memory store agree: every operation is found or not-found in both on
\* corresponding identifiers, and an update overwrites exactly the fields
\* the caller supplied while every omitted field keeps its value.
C11_StoresAgree ==
  /\ \A k \in PairKeys :
       /\ is_some(UsersState_get_user(state, UserIdOf(k)))
            <=> is_some(TodoRepoPostgres_get(db, TodoIdOf(k)))
       /\ is_some(UsersState_get_user(state, UserIdOf(k))) =>
            SameRecord(unwrap(UsersState_get_user(state, UserIdOf(k))),
                       unwrap(TodoRepoPostgres_get(db, TodoIdOf(k))), k)
  /\ \A i \in DOMAIN issued : issued[i] = Both(UserIdOf(i - 1), TodoIdOf(i - 1))
  /\ last.op \in {"get", "create", "update", "delete"} =>
       /\ is_some(last.ret.user) <=> is_some(last.ret.todo)
       /\ is_some(last.ret.user) =>
            SameRecord(unwrap(last.ret.user), unwrap(last.ret.todo), last.id)
  /\ last.op = "list" =>
       { TodoIdOf(last.ret.user[i].id) : i \in DOMAIN last.ret.user }
         = { last.ret.todo[i].id : i \in DOMAIN last.ret.todo }
  /\ (last.op = "update" /\ TodoIdOf(last.id) \in DOMAIN last.pre.todo.todos) =>
       LET old == last.pre.todo.todos[TodoIdOf(last.id)]
           exp == Coalesced(old, unwrap(last.arg))
       IN  /\ last.ret.todo = Some(exp)
           /\ TodoRepoPostgres_get(db, TodoIdOf(last.id)) = Some(exp)
           /\ db.todos[TodoIdOf(last.id)].created_at = old.created_at

\* an update that supplied only the description was found in both stores
\* and kept the title and the done flag set by earlier updates
C11_Witness ==
  /\ app = "pair"
  /\ last.op = "update"
  /\ unwrap(last.arg) = [title |-> None, description |-> Some("d2"), done |-> None]
  /\ last.ret.todo = Some([id |-> 2, title |-> "t2", description |-> "d2", done |-> TRUE])
  /\ last.ret.user = Some(User(1, "t2", "d2"))
  /\ 0 \in deleted

(***************************************************************************)
(* Properties of the exercise routers (checked under SpecExercises).       *)
(***************************************************************************)
Str130 == << "1", "3", "0" >>

\* C12: in the generic-state exercise (gbp_to_usd = 1.3) and in the
\* extension exercise, GET /usd_to_gbp with body "100" is answered with the
\* body "130".
C12_ExercisesAnswer130 ==
  \A i \in DOMAIN exercise_log :
    LET r == exercise_log[i]
    IN  (r.exercise \in {"generic", "extension"}
           /\ r.route = "/usd_to_gbp" /\ r.body = Str100)
          => r.out = Replied(Str130)

(***************************************************************************)
(* Lock release and progress of the users handlers (SpecCancelFair).       *)
(***************************************************************************)
Holding == InMethod \cup {"granted"}
Finished(t) == tasks[t].pc \in {"idle"} \cup Cancelled
Responded(t) == Answered(t) /\ tasks[t].resp.status \in {StatusCode_OK, StatusCode_NOT_FOUND}

\* C13: the lock is held only by a task that is between lock().await and
\* its return (so it is free after a success, a not-found and a
\* cancellation); whenever a request is in flight some task can take a step;
\* and under fair scheduling every request waiting for the lock is
\* eventually answered with a response unless it is cancelled.
C13_LockReleasedAndProgress ==
  /\ [](lock # 0 => tasks[lock].pc \in Holding)
  /\ []((\E t \in CancelTasks : ~Finished(t))
          => (\E u \in CancelTasks : ENABLED Progress(u)))
  /\ \A t \in CancelTasks :
       (tasks[t].pc = "lock") ~> (Responded(t) \/ tasks[t].pc \in Cancelled)

\* one task was dropped after the permit had been handed to it, another was
\* answered 404, and the lock is free
C13_Witness ==
  /\ lock = 0
  /\ \E t, u \in CancelTasks :
       /\ tasks[t].pc = "cancelled_granted"
       /\ Responded(u)
       /\ tasks[u].resp.status = StatusCode_NOT_FOUND

(***************************************************************************)
(* Concurrent updates of one record (SpecConc).                            *)
(***************************************************************************)
NameOnly(update) == is_some(update.name) /\ is_none(update.email)
EmailOnly(update) == is_none(update.name) /\ is_some(update.email)

\* task t was answered for an update that supplied only the name, task u
\* for one of the same record that supplied only the email; both found it
DisjointUpdates(t, u) ==
  /\ t # u
  /\ Answered(t) /\ Answered(u)
  /\ tasks[t].req.op = "update" /\ tasks[u].req.op = "update"
  /\ tasks[t].req.id = tasks[u].req.id
  /\ is_some(tasks[t].ret) /\ is_some(tasks[u].ret)
  /\ NameOnly(unwrap(tasks[t].req.arg))
  /\ EmailOnly(unwrap(tasks[u].req.arg))

Overlapping(t, u) ==
  /\ tasks[t].idx \notin tasks[u].before
  /\ tasks[u].idx \notin tasks[t].before

\* C14: when an update of a live record that supplies only the name and an
\* update of the same record that supplies only the email have both been
\* answered, the record returned by the one that took the lock last, and the
\* record then in the store, carry the new name and the new email.
C14_DisjointUpdatesBothKept ==
  \A t, u \in Tasks :
    DisjointUpdates(t, u) =>
      LET later == IF tasks[t].idx > tasks[u].idx THEN t ELSE u
          id    == tasks[t].req.id
          name  == unwrap(unwrap(tasks[t].req.arg).name)
          email == unwrap(unwrap(tasks[u].req.arg).email)
      IN  /\ unwrap(tasks[later].ret) = User(id, name, email)
          /\ (lock = 0 /\ id \in DOMAIN state.users)
                => state.users[id] = User(id, name, email)

\* the two updates of record 0 were in flight together, both were answered
\* and the store holds Bob with b@x.com
C14_Witness ==
  \E t, u \in Tasks :
    /\ DisjointUpdates(t, u)
    /\ Overlapping(t, u)
    /\ lock = 0
    /\ state.users = (0 :> User(0, "Bob", "b@x.com"))

(***************************************************************************)
(* Cancelled requests (SpecCancel).                                        *)
(***************************************************************************)
\* task t is dropped in this step, before lock().await has returned to it
CancelStep(t) == is_suspended(tasks[t].pc) /\ tasks'[t].pc \in Cancelled

\* C15: a step that drops a request task before lock().await has returned
\* leaves the collection and the counter as they were; the store, whenever
\* the lock is free, is the store of the run in which only the requests
\* that were not cancelled were issued; and every create that is answered
\* returns the identifier it returns in that run.
C15_CancelledHasNoEffect ==
  /\ [][\A t \in CancelTasks : CancelStep(t) => state' = state]_vars
  /\ [](lock = 0 => state = lin.state)
  /\ [](\A t \in CancelTasks :
          (Answered(t) /\ tasks[t].req.op = "create")
            => tasks[t].ret \in tasks[t].exp)

\* a create was dropped while it waited for the lock, the store then had
\* no record and counter 0, and a later create was answered with id 0
C15_Witness ==
  \E t, u \in CancelTasks :
    /\ tasks[t].pc = "cancelled_waiting"
    /\ tasks[t].req.op = "create"
    /\ Responded(u)
    /\ tasks[u].req.op = "create"
    /\ unwrap(tasks[u].ret).id = 0
    /\ state.next_id = 1
    /\ lin.n = 1

(***************************************************************************)
(* What each users operation leaves alone (Spec).                          *)
(***************************************************************************)
\* the records under every key but id are those of before, no key but id
\* came or went, and the counter is the one of before
OthersAndCounterKept(id) ==
  /\ state.next_id = last.pre.next_id
  /\ (DOMAIN state.users) \ {id} = (DOMAIN last.pre.users) \ {id}
  /\ \A k \in (DOMAIN last.pre.users) \ {id} : state.users[k] = last.pre.users[k]

\* every key maps to the record that carries it, below the counter
KeysAreIds(st) ==
  \A k \in DOMAIN st.users : st.users[k].id = k /\ k < st.next_id

\* C16: get and list leave the collection and the counter as they were, and
\* so do update and delete of an absent identifier; update and delete of a
\* live identifier leave the counter and every other record as they were;
\* and in every state each key k maps to a record whose id is k, with k
\* below the counter.
C16_FrameAndKeys ==
  IsUsers =>
    /\ KeysAreIds(state)
    /\ last.op \in {"get", "list"} => state = last.pre
    /\ (last.op \in {"update", "delete"} /\ ~LastLive) => state = last.pre
    /\ (last.op \in {"update", "delete"} /\ LastLive) => OthersAndCounterKept(last.id)

\* with records 0 and 2 live and record 1 deleted, the last request updated
\* record 2 and left record 0 and the counter 3 as they were
C16_Witness ==
  /\ LastOn("update")
  /\ last.id = 2
  /\ LastLive
  /\ DOMAIN state.users = {0, 2}
  /\ state.next_id = 3
  /\ state.users[2] # last.pre.users[2]
====
